---- MODULE Spec2Model ----
(***************************************************************************)
(* Model of src/Boot/EFI/cs_service.c (CipherShed EFI boot loader): the    *)
(* service-menu media encryption/decryption.                               *)
(*                                                                         *)
(* One invocation of encrypt_decrypt_media is one "run".  The persisted    *)
(* volume header (disk) and the raw media survive from one run to the      *)
(* next; everything else is rebuilt at entry.  All firmware services       *)
(* (console, block I/O, pool allocator, header persistence) are external:  *)
(* their outcome is a nondeterministic input of the step that calls them.  *)
(*                                                                         *)
(* The additions and subtractions the code performs on its unsigned        *)
(* cursors and counters (UINTN, UINT64) are taken modulo 2^WordBits; the   *)
(* width is scaled down so that TLC's integers can hold it, the            *)
(* wrap-around behaviour is the same.  Byte counts (sector << 9) and the   *)
(* per-mille product are 64-bit values far from their limit and are kept   *)
(* exact.                                                                  *)
(***************************************************************************)
EXTENDS Integers, Sequences, FiniteSets, TLC

\* ------------------------------------------------------------------ bounds

\* largest volume of the model, in sectors
MaxSectors == 1000

\* invocations of encrypt_decrypt_media in one behaviour
MaxRuns == 2

\* chunks one run may issue before the model stops following it
MaxChunks == 14

\* width of the unsigned cursor arithmetic
WordBits == 20

\* ------------------------------------------------------- program constants

CS_SERVICE_NUMBER_SECTORS == 80

TC_LB_SIZE_BIT_SHIFT_DIVISOR == 9

\* ----------------------------------------------------------------- helpers

WordMod == 2 ^ WordBits

\* x >> TC_LB_SIZE_BIT_SHIFT_DIVISOR
ShiftRight(x) == x \div (2 ^ TC_LB_SIZE_BIT_SHIFT_DIVISOR)

\* x << TC_LB_SIZE_BIT_SHIFT_DIVISOR
ShiftLeft(x) == x * (2 ^ TC_LB_SIZE_BIT_SHIFT_DIVISOR)

\* unsigned a - b and a + b
USub(a, b) == (a - b) % WordMod

UAdd(a, b) == (a + b) % WordMod

\* EFI_ERROR(error)
EFI_ERROR(e) == e # "EFI_SUCCESS"

\* the sectors lba .. lba+n-1 of one transfer
Chunk(lba, n) == lba .. (lba + n - 1)

\* the handles of the model: two devices of the CipherShed driver, one of
\* another driver
Handles == {"cs1", "cs2", "other"}

\* is_cs_child_device(ParentHandle, child): the CsCallerIdGuid probe
is_cs_child_device(child) == child \in {"cs1", "cs2"}

\* the lists BS->OpenProtocolInformation may return
OpenInfoEntries == [Attributes : {"BY_DRIVER", "BY_CHILD_CONTROLLER"}, ControllerHandle : Handles]

OpenInfoLists == {<<>>} \cup {<<a>> : a \in OpenInfoEntries} \cup {<<a, b>> : a \in OpenInfoEntries, b \in OpenInfoEntries}

\* the volume headers of the model, in sectors: <<total, encrypted, start>>.
\* They cover an empty volume, volumes smaller than one buffer, remainders
\* below and above one buffer that are no multiple of it, and (the last
\* one) an inconsistent header with encrypted > total.
Geometries == {<<0, 0, 0>>, <<40, 0, 63>>, <<40, 40, 63>>, <<200, 80, 63>>, <<200, 130, 63>>, <<MaxSectors, 0, 63>>, <<40, 80, 63>>}

Header(start, len, size) == [EncryptedAreaStart |-> start, EncryptedAreaLength |-> len, VolumeSize |-> size]

ValidHeader(h) == 0 <= h.EncryptedAreaLength /\ h.EncryptedAreaLength <= h.VolumeSize

\* the media is what header h says: of the sectors of the volume exactly
\* those below the encrypted length are in encrypted form
Consistent(h, m) ==
    (m \cap (0 .. (ShiftRight(h.VolumeSize) - 1))) = 0 .. (ShiftRight(h.EncryptedAreaLength) - 1)

\* ------------------------------------------------------------------- state

VARIABLES
    pc,             \* position in encrypt_decrypt_media / do_encrypt_decrypt_media
    runs,           \* invocations of encrypt_decrypt_media so far
    encrypt,        \* the direction flag of the current run
    user_decision,  \* *user_decision
    status,         \* the EFI_STATUS encrypt_decrypt_media returned ("NONE" before)
    error,          \* the local EFI_STATUS of the function that is executing
    showWrongPwd,   \* check_user_password: showWrongPwd
    cryptoInfo,     \* the CRYPTO_INFO get_crypto_info() returns (in memory)
    disk,           \* the volume header as persisted on the media
    media,          \* the sectors of the raw media that are in encrypted form
    OpenInfo,       \* get_cs_child: the list of agents ("NULL": no buffer)
    ChildHandle,    \* the child handle get_cs_child found ("NULL": none)
    parentOpen,     \* the parent's block I/O interface is open
    childOpen,      \* the child's block I/O interface is open
    closes,         \* close_blockio_protocol calls issued, per handle
    lba,            \* do_encrypt_decrypt_media: lba
    numberSectors,  \* do_encrypt_decrypt_media: numberSectors
    bufferSectors,  \* do_encrypt_decrypt_media: bufferSectors
    bytesToRead,    \* do_encrypt_decrypt_media: bytesToRead
    sectorsInVolume,\* do_encrypt_decrypt_media: sectorsInVolume
    processedLba,   \* the argument of update_blocks_in_volume_header
    ioLog,          \* the ReadBlocks/WriteBlocks calls of the current run
    perMille,       \* the values passed to dump_per_cent in the current run
    hist,           \* what happened in the current run (observation only)
    prev,           \* what happened in the previous run (observation only)
    hdr0,           \* the persisted header before the first run (observation only)
    scan            \* the last call of get_cs_child, until the caller's next step (observation only)

vars == <<pc, runs, encrypt, user_decision, status, error, showWrongPwd, cryptoInfo, disk, media, OpenInfo, ChildHandle, parentOpen, childOpen, closes, lba, numberSectors, bufferSectors, bytesToRead, sectorsInVolume, processedLba, ioLog, perMille, hist, prev, hdr0, scan>>

\* the variables of the orchestrator that the conversion leaves alone
orchVars == <<runs, encrypt, user_decision, status, showWrongPwd, OpenInfo, ChildHandle, parentOpen, childOpen, closes, prev, hdr0, scan>>

\* the locals of do_encrypt_decrypt_media
convVars == <<lba, numberSectors, bufferSectors, bytesToRead, sectorsInVolume, processedLba>>

\* the observation of a run that has not done anything yet
NoHist == [entryHdr |-> Header(0, 0, 0), entryConsistent |-> FALSE, steps |-> {}, esc |-> FALSE, pwdAccepted |-> FALSE, confirmed |-> FALSE, parentOpened |-> FALSE, sessionOpened |-> FALSE, bufferAllocated |-> FALSE, chunks |-> 0, cancelled |-> FALSE, ioFailed |-> FALSE, uninitRead |-> FALSE, updateCalls |-> 0, persistCalls |-> 0, persistFailed |-> FALSE, ioAfterPersist |-> FALSE, loopDone |-> FALSE, returned |-> FALSE]

\* what a later run remembers of the run before it
Summary(enc, h, st) == [ran |-> TRUE, encrypt |-> enc, converted |-> h.chunks > 0, cancelled |-> h.cancelled, completed |-> h.loopDone, ioOk |-> (~h.ioFailed /\ ~h.persistFailed), success |-> (st = "EFI_SUCCESS")]

\* the observation of get_cs_child when it has not just run: the list it
\* was given, the entries it handed to is_cs_child_device
NoScan == [done |-> FALSE, info |-> <<>>, probed |-> {}]

NoPrev == [ran |-> FALSE, encrypt |-> FALSE, converted |-> FALSE, cancelled |-> FALSE, completed |-> FALSE, ioOk |-> FALSE, success |-> FALSE]

Init ==
    /\ pc = "idle"
    /\ runs = 0
    /\ encrypt = FALSE
    /\ user_decision = "CS_UI_SERVICE_MENU"
    /\ status = "NONE"
    /\ error = "UNINIT"
    /\ showWrongPwd = FALSE
    /\ \E g \in Geometries :
          /\ disk = Header(ShiftLeft(g[3]), ShiftLeft(g[2]), ShiftLeft(g[1]))
          /\ media = 0 .. ((IF g[2] <= g[1] THEN g[2] ELSE g[1]) - 1)
    /\ cryptoInfo = Header(0, 0, 0)
    /\ OpenInfo = "NULL"
    /\ ChildHandle = "NULL"
    /\ parentOpen = FALSE
    /\ childOpen = FALSE
    /\ closes = [parent |-> 0, child |-> 0]
    /\ lba = 0
    /\ numberSectors = 0
    /\ bufferSectors = 0
    /\ bytesToRead = 0
    /\ sectorsInVolume = 0
    /\ processedLba = 0
    /\ ioLog = <<>>
    /\ perMille = <<>>
    /\ hist = NoHist
    /\ prev = NoPrev
    /\ hdr0 = disk
    /\ scan = NoScan


\* ------------------------------------------------- encrypt_decrypt_media

\* observation h with one more step of encrypt_decrypt_media attempted:
\* "password" (a round of the prompt), "confirm", "driver", "discover",
\* "open", "convert"
Step(h, name) == [h EXCEPT !.steps = @ \cup {name}]

\* a return of encrypt_decrypt_media with status st, the observation being h
ReturnWith(h, st) ==
    /\ pc' = "done"
    /\ status' = st
    /\ hist' = [h EXCEPT !.returned = TRUE]

Return(st) == ReturnWith(hist, st)

\* Entry of encrypt_decrypt_media (line 432) and the head of
\* check_user_password (lines 47-50).  A run that follows another one starts
\* after the reboot the earlier run asked for, or from the service menu: the
\* locals are fresh, the persisted header and the media are what was left.
Entry ==
    /\ pc \in {"idle", "done"}
    /\ runs < MaxRuns
    /\ runs' = runs + 1
    /\ prev' = IF pc = "done" THEN Summary(encrypt, hist, status) ELSE prev
    /\ user_decision' = "CS_UI_SERVICE_MENU"
    /\ showWrongPwd' = FALSE
    /\ cryptoInfo' = Header(0, 0, 0)
    /\ OpenInfo' = "NULL"
    /\ scan' = NoScan
    /\ ChildHandle' = "NULL"
    /\ parentOpen' = FALSE
    /\ childOpen' = FALSE
    /\ closes' = [parent |-> 0, child |-> 0]
    /\ lba' = 0
    /\ numberSectors' = 0
    /\ bufferSectors' = 0
    /\ bytesToRead' = 0
    /\ sectorsInVolume' = 0
    /\ processedLba' = 0
    /\ ioLog' = <<>>
    /\ perMille' = <<>>
    /\ \E enc \in BOOLEAN, silent \in BOOLEAN, outputOk \in BOOLEAN :
          /\ encrypt' = enc
          /\ IF ~silent /\ ~outputOk
                THEN /\ error' = "EFI_DEVICE_ERROR"
                     /\ pc' = "pwd_ret"
                ELSE /\ error' = "UNINIT"
                     /\ pc' = "pwd"
    /\ status' = "NONE"
    /\ hist' = [NoHist EXCEPT !.entryHdr = disk, !.entryConsistent = Consistent(disk, media)]
    /\ UNCHANGED <<disk, media, hdr0>>

\* the condition of the loop of check_user_password (line 75)
RepeatPromptOnAnyError(e) == EFI_ERROR(e)

RepeatPrompt(e) == e = "EFI_ACCESS_DENIED"

\* One round of the loop of check_user_password (lines 52-77): the prompt,
\* the input, the escape key, decrypt_volume_header.  decrypt_volume_header
\* reads the persisted header into the CRYPTO_INFO.  showWrongPwd is TRUE
\* from the first wrong password until the function returns and the local
\* is gone.
PasswordRound ==
    /\ pc = "pwd"
    /\ \E askOk \in BOOLEAN, inputOk \in BOOLEAN, escape \in BOOLEAN, hdrResult \in {"EFI_SUCCESS", "EFI_ACCESS_DENIED", "EFI_DEVICE_ERROR"} :
          IF ~askOk \/ ~inputOk
             THEN /\ error' = "EFI_DEVICE_ERROR"
                  /\ pc' = "pwd_ret"
                  /\ showWrongPwd' = FALSE
                  /\ hist' = Step(hist, "password")
                  /\ UNCHANGED <<user_decision, cryptoInfo>>
             ELSE IF escape
             THEN /\ user_decision' = "CS_UI_ESC_PRESSED"
                  /\ error' = "EFI_SUCCESS"
                  /\ pc' = "pwd_ret"
                  /\ hist' = [Step(hist, "password") EXCEPT !.esc = TRUE]
                  /\ showWrongPwd' = FALSE
                  /\ UNCHANGED cryptoInfo
             ELSE /\ showWrongPwd' = RepeatPrompt(hdrResult)
                  /\ error' = hdrResult
                  /\ cryptoInfo' = IF hdrResult = "EFI_SUCCESS" THEN disk ELSE cryptoInfo
                  /\ pc' = IF RepeatPrompt(hdrResult) THEN "pwd" ELSE "pwd_ret"
                  /\ hist' = [Step(hist, "password") EXCEPT !.pwdAccepted = (hdrResult = "EFI_SUCCESS")]
                  /\ UNCHANGED user_decision
    /\ UNCHANGED <<runs, encrypt, status, disk, media, OpenInfo, ChildHandle, parentOpen, childOpen, closes, ioLog, perMille, prev, hdr0, scan>>
    /\ UNCHANGED convVars

\* the decision encrypt_decrypt_media stores when check_user_password
\* reports the escape key (line 441)
DecisionAfterEscKept == "CS_UI_ESC_PRESSED"

DecisionAfterEsc == "CS_UI_SERVICE_MENU"

\* encrypt_decrypt_media after check_user_password returned (lines 435-443)
AfterPassword ==
    /\ pc = "pwd_ret"
    /\ IF EFI_ERROR(error)
          THEN /\ Return(error)
               /\ UNCHANGED user_decision
          ELSE IF user_decision = "CS_UI_ESC_PRESSED"
          THEN /\ user_decision' = DecisionAfterEsc
               /\ Return("EFI_SUCCESS")
          ELSE /\ pc' = "confirm"
               /\ UNCHANGED <<user_decision, status, hist>>
    /\ UNCHANGED <<runs, encrypt, error, showWrongPwd, cryptoInfo, disk, media, OpenInfo, ChildHandle, parentOpen, childOpen, closes, ioLog, perMille, prev, hdr0, scan>>
    /\ UNCHANGED convVars

\* check_really_do (lines 445-447)
ConfirmIntent ==
    /\ pc = "confirm"
    /\ \E yes \in BOOLEAN :
          IF yes
             THEN /\ pc' = "driver"
                  /\ hist' = [Step(hist, "confirm") EXCEPT !.confirmed = TRUE]
                  /\ UNCHANGED status
             ELSE ReturnWith(Step(hist, "confirm"), "EFI_SUCCESS")
    /\ UNCHANGED <<runs, encrypt, user_decision, error, showWrongPwd, cryptoInfo, disk, media, OpenInfo, ChildHandle, parentOpen, childOpen, closes, ioLog, perMille, prev, hdr0, scan>>
    /\ UNCHANGED convVars

\* start_connect_fake_crypto_driver (lines 449-453)
DriverActivation ==
    /\ pc = "driver"
    /\ \E ok \in BOOLEAN :
          IF ok
             THEN /\ error' = "EFI_SUCCESS"
                  /\ pc' = "discover"
                  /\ hist' = Step(hist, "driver")
                  /\ UNCHANGED status
             ELSE /\ error' = "EFI_DEVICE_ERROR"
                  /\ ReturnWith(Step(hist, "driver"), "EFI_DEVICE_ERROR")
    /\ UNCHANGED <<runs, encrypt, user_decision, showWrongPwd, cryptoInfo, disk, media, OpenInfo, ChildHandle, parentOpen, childOpen, closes, ioLog, perMille, prev, hdr0, scan>>
    /\ UNCHANGED convVars

\* get_cs_child, lines 102-111: BS->OpenProtocolInformation
GetCsChildQuery ==
    /\ pc = "discover"
    /\ ChildHandle' = "NULL"
    /\ \/ /\ error' = "EFI_DEVICE_ERROR"
          /\ ReturnWith(Step(hist, "discover"), "EFI_DEVICE_ERROR")
          /\ UNCHANGED OpenInfo
       \/ /\ \E info \in OpenInfoLists : OpenInfo' = info
          /\ error' = "EFI_SUCCESS"
          /\ pc' = "scan"
          /\ hist' = Step(hist, "discover")
          /\ UNCHANGED status
    /\ UNCHANGED <<runs, encrypt, user_decision, showWrongPwd, cryptoInfo, disk, media, parentOpen, childOpen, closes, ioLog, perMille, prev, hdr0, scan>>
    /\ UNCHANGED convVars

\* the index at which the loop of get_cs_child stops (lines 112-129): the
\* first entry opened BY_CHILD_CONTROLLER that passes the probe, or
\* Len(info) + 1 when the loop runs to its end
RECURSIVE ScanStopNoBreak(_, _)
ScanStopNoBreak(info, i) ==
    IF i > Len(info) THEN i
    ELSE IF info[i].Attributes = "BY_CHILD_CONTROLLER" /\ is_cs_child_device(info[i].ControllerHandle) /\ ScanStopNoBreak(info, i + 1) > Len(info) THEN i
    ELSE ScanStopNoBreak(info, i + 1)

RECURSIVE ScanStop(_, _)
ScanStop(info, i) ==
    IF i > Len(info) THEN i
    ELSE IF info[i].Attributes = "BY_CHILD_CONTROLLER" /\ is_cs_child_device(info[i].ControllerHandle) THEN i
    ELSE ScanStop(info, i + 1)

\* the entries the loop hands to is_cs_child_device when it stops at index
\* stop (lines 113-122): those opened BY_CHILD_CONTROLLER among the ones it
\* visits
Probed(info, stop) ==
    {i \in 1..Len(info) : i <= stop /\ info[i].Attributes = "BY_CHILD_CONTROLLER"}

\* get_cs_child, lines 112-139: the loop, FreePool, the result
GetCsChildScan ==
    /\ pc = "scan"
    /\ LET stop == ScanStop(OpenInfo, 1)
           child == IF stop > Len(OpenInfo) THEN "NULL" ELSE OpenInfo[stop].ControllerHandle
       IN /\ ChildHandle' = child
          /\ scan' = [done |-> TRUE, info |-> OpenInfo, probed |-> Probed(OpenInfo, stop)]
          /\ OpenInfo' = "NULL"
          /\ IF child = "NULL"
                THEN /\ error' = "EFI_NO_MEDIA"
                     /\ Return("EFI_NO_MEDIA")
                ELSE /\ pc' = "open"
                     /\ UNCHANGED <<error, status, hist>>
    /\ UNCHANGED <<runs, encrypt, user_decision, showWrongPwd, cryptoInfo, disk, media, parentOpen, childOpen, closes, ioLog, perMille, prev, hdr0>>
    /\ UNCHANGED convVars

\* open_blockio_protocols (lines 196-221) as called at line 465.  The line
\* feed of lines 470-472 leaves no trace: its status is overwritten by the
\* call of line 475.
OpenBlockIoProtocols ==
    /\ pc = "open"
    /\ scan' = NoScan
    /\ \E parentOk \in BOOLEAN, childOk \in BOOLEAN, closeOk \in BOOLEAN :
          IF ~parentOk
             THEN /\ error' = "EFI_DEVICE_ERROR"
                  /\ ReturnWith(Step(hist, "open"), "EFI_DEVICE_ERROR")
                  /\ UNCHANGED <<parentOpen, childOpen, closes>>
             ELSE IF ~childOk
             THEN /\ error' = "EFI_DEVICE_ERROR"
                  /\ ReturnWith([Step(hist, "open") EXCEPT !.parentOpened = TRUE], "EFI_DEVICE_ERROR")
                  /\ parentOpen' = ~closeOk
                  /\ closes' = [closes EXCEPT !.parent = @ + 1]
                  /\ UNCHANGED childOpen
             ELSE /\ parentOpen' = TRUE
                  /\ childOpen' = TRUE
                  /\ error' = "UNINIT"
                  /\ pc' = "convert"
                  /\ hist' = [Step(hist, "open") EXCEPT !.parentOpened = TRUE, !.sessionOpened = TRUE]
                  /\ UNCHANGED <<status, closes>>
    /\ UNCHANGED <<runs, encrypt, user_decision, showWrongPwd, cryptoInfo, disk, media, OpenInfo, ChildHandle, ioLog, perMille, prev, hdr0>>
    /\ UNCHANGED convVars

\* the decision encrypt_decrypt_media stores once the session it opened is
\* over (line 485)
DecisionAfterSessionKept == "CS_UI_SERVICE_MENU"

DecisionAfterSession == "CS_UI_REBOOT"

\* the close_blockio_protocol calls issued after the conversion (lines
\* 477-484): one for the parent, then one for the child, whatever the first
\* one returned
ClosesAfterSessionParentOnly(c) == [parent |-> c.parent + 1, child |-> c.child]

ClosesAfterSession(c) == [parent |-> c.parent + 1, child |-> c.child + 1]

\* encrypt_decrypt_media after do_encrypt_decrypt_media returned (lines
\* 477-488): both closes, the decision, the status of the conversion
SessionClose ==
    /\ pc = "conv_ret"
    /\ \E parentCloseOk \in BOOLEAN, childCloseOk \in BOOLEAN :
          /\ parentOpen' = ~parentCloseOk
          /\ childOpen' = ~childCloseOk
    /\ closes' = ClosesAfterSession(closes)
    /\ user_decision' = DecisionAfterSession
    /\ Return(error)
    /\ UNCHANGED <<runs, encrypt, error, showWrongPwd, cryptoInfo, disk, media, OpenInfo, ChildHandle, ioLog, perMille, prev, hdr0, scan>>
    /\ UNCHANGED convVars


\* ---------------------------------------------- do_encrypt_decrypt_media

\* bufferSectors before the loop (lines 289 and 318-320): only the decrypt
\* branch clamps it to the sectors there are
InitialBufferSectorsUnclamped(enc, numberEncryptedSectors) == CS_SERVICE_NUMBER_SECTORS

InitialBufferSectors(enc, numberEncryptedSectors) ==
    IF enc
       THEN CS_SERVICE_NUMBER_SECTORS
       ELSE (IF numberEncryptedSectors < CS_SERVICE_NUMBER_SECTORS THEN numberEncryptedSectors ELSE CS_SERVICE_NUMBER_SECTORS)

\* the consistency check of line 302
VolumeInconsistentNever(endEncryptedArea, startSector, inVolume) == FALSE

VolumeInconsistent(endEncryptedArea, startSector, inVolume) ==
    endEncryptedArea > UAdd(startSector, inVolume)

\* lines 294-331: the geometry, the direction, the buffer
ConvSetup ==
    /\ pc = "convert"
    /\ LET startSector == 0
           numberEncryptedSectors == ShiftRight(cryptoInfo.EncryptedAreaLength)
           endEncryptedArea == UAdd(startSector, numberEncryptedSectors)
           inVolume == ShiftRight(cryptoInfo.VolumeSize)
           toEncrypt == USub(inVolume, numberEncryptedSectors)
           buf == InitialBufferSectors(encrypt, numberEncryptedSectors)
       IN IF VolumeInconsistent(endEncryptedArea, startSector, inVolume)
             THEN /\ error' = "EFI_VOLUME_CORRUPTED"
                  /\ pc' = "conv_ret"
                  /\ sectorsInVolume' = inVolume
                  /\ hist' = Step(hist, "convert")
                  /\ UNCHANGED <<lba, numberSectors, bufferSectors, bytesToRead>>
             ELSE /\ sectorsInVolume' = inVolume
                  /\ bufferSectors' = buf
                  /\ lba' = IF encrypt THEN endEncryptedArea ELSE USub(UAdd(startSector, numberEncryptedSectors), buf)
                  /\ numberSectors' = IF encrypt THEN toEncrypt ELSE numberEncryptedSectors
                  /\ \E allocOk \in BOOLEAN :
                        IF allocOk
                           THEN /\ bytesToRead' = ShiftLeft(buf)
                                /\ pc' = "loop"
                                /\ hist' = [Step(hist, "convert") EXCEPT !.bufferAllocated = TRUE]
                                /\ UNCHANGED error
                           ELSE /\ error' = "EFI_OUT_OF_RESOURCES"
                                /\ pc' = "conv_ret"
                                /\ hist' = Step(hist, "convert")
                                /\ UNCHANGED bytesToRead
    /\ UNCHANGED <<cryptoInfo, disk, media, processedLba, ioLog, perMille>>
    /\ UNCHANGED orchVars

\* the device a transfer addresses (lines 309-310 and 316-317)
Source(enc) == IF enc THEN "child" ELSE "parent"

DestAsSource(enc) == IF enc THEN "child" ELSE "parent"

Dest(enc) == IF enc THEN "parent" ELSE "child"

\* one ReadBlocks/WriteBlocks call: the device, the LBA, the byte count, the
\* outcome, and (observation) the sectors that were left when it was issued
IoEvent(op, dev, ok) == [op |-> op, dev |-> dev, lba |-> lba, bytes |-> bytesToRead, ok |-> ok, left |-> numberSectors]

\* line 333: the loop ends when no sector is left
LoopExit ==
    /\ pc = "loop"
    /\ numberSectors = 0
    /\ pc' = "exit"
    /\ hist' = [hist EXCEPT !.loopDone = TRUE]
    /\ UNCHANGED <<error, cryptoInfo, disk, media, ioLog, perMille>>
    /\ UNCHANGED convVars
    /\ UNCHANGED orchVars

\* lines 333-342: source->ReadBlocks
ReadBlocks ==
    /\ pc = "loop"
    /\ numberSectors > 0
    /\ hist.chunks < MaxChunks
    /\ \E ok \in BOOLEAN :
          /\ ioLog' = Append(ioLog, IoEvent("read", Source(encrypt), ok))
          /\ error' = IF ok THEN "EFI_SUCCESS" ELSE "EFI_DEVICE_ERROR"
          /\ pc' = IF ok THEN "write" ELSE "exit"
          /\ hist' = [hist EXCEPT !.ioFailed = ~ok, !.ioAfterPersist = @ \/ hist.updateCalls > 0]
    /\ UNCHANGED <<cryptoInfo, disk, media, perMille>>
    /\ UNCHANGED convVars
    /\ UNCHANGED orchVars

\* bufferSectors after a chunk (lines 361-364)
NextBufferSectors(remaining, buf) == IF remaining < buf THEN remaining ELSE buf

\* the value passed to dump_per_cent (lines 370-380), <<>> when none is
Progress(enc, newLba, buf, inVolume) ==
    IF inVolume > 0
       THEN (IF enc
                THEN <<(1000 * (newLba - 0 + buf)) \div inVolume>>
                ELSE <<1000 - ((1000 * (newLba - 0)) \div inVolume)>>)
       ELSE <<>>

\* lines 344-380: dest->WriteBlocks, then the cursor and the progress
WriteBlocks ==
    /\ pc = "write"
    /\ \E ok \in BOOLEAN :
          /\ ioLog' = Append(ioLog, IoEvent("write", Dest(encrypt), ok))
          /\ IF ~ok
                THEN /\ error' = "EFI_DEVICE_ERROR"
                     /\ pc' = "exit"
                     /\ hist' = [hist EXCEPT !.ioFailed = TRUE, !.ioAfterPersist = @ \/ hist.updateCalls > 0]
                     /\ UNCHANGED <<media, perMille, lba, numberSectors, bufferSectors, bytesToRead>>
                ELSE LET written == Chunk(lba, ShiftRight(bytesToRead))
                         forward == IF encrypt THEN UAdd(lba, bufferSectors) ELSE lba
                         remaining == USub(numberSectors, bufferSectors)
                         buf == NextBufferSectors(remaining, bufferSectors)
                         newLba == IF encrypt THEN forward ELSE USub(forward, buf)
                     IN /\ media' = IF encrypt THEN media \cup written ELSE media \ written
                        /\ error' = "EFI_SUCCESS"
                        /\ numberSectors' = remaining
                        /\ bufferSectors' = buf
                        /\ bytesToRead' = IF remaining < bufferSectors THEN ShiftLeft(buf) ELSE bytesToRead
                        /\ lba' = newLba
                        /\ perMille' = perMille \o Progress(encrypt, newLba, buf, sectorsInVolume)
                        /\ pc' = "poll"
                        /\ hist' = [hist EXCEPT !.chunks = @ + 1, !.ioAfterPersist = @ \/ hist.updateCalls > 0]
    /\ UNCHANGED <<cryptoInfo, disk, sectorsInVolume, processedLba>>
    /\ UNCHANGED orchVars

\* lines 382-385: check_for_ESC
CheckForEsc ==
    /\ pc = "poll"
    /\ \E escape \in BOOLEAN :
          /\ pc' = IF escape THEN "exit" ELSE "loop"
          /\ hist' = [hist EXCEPT !.cancelled = escape]
    /\ UNCHANGED <<error, cryptoInfo, disk, media, ioLog, perMille>>
    /\ UNCHANGED convVars
    /\ UNCHANGED orchVars

\* the values `error` may hold when line 393 reads it: the loop body never
\* ran and nothing was assigned, so the value is whatever the stack held
ErrorRead(e) == IF e = "UNINIT" THEN {"EFI_SUCCESS", "EFI_INDETERMINATE_ERROR"} ELSE {e}

\* the LBA handed to update_blocks_in_volume_header (line 396)
ProcessedLbaFullBuffer(enc, l, buf) == IF enc THEN l ELSE UAdd(l, CS_SERVICE_NUMBER_SECTORS)

ProcessedLba(enc, l, buf) == IF enc THEN l ELSE UAdd(l, buf)

\* lines 387-397: FreePool, and the call of update_blocks_in_volume_header
\* unless `error` is an error
ConvExit ==
    /\ pc = "exit"
    /\ \E e \in ErrorRead(error) :
          /\ error' = e
          /\ hist' = [hist EXCEPT !.uninitRead = (error = "UNINIT")]
          /\ IF EFI_ERROR(e)
                THEN /\ pc' = "conv_ret"
                     /\ UNCHANGED <<lba, processedLba>>
                ELSE /\ lba' = UAdd(lba, ShiftRight(cryptoInfo.EncryptedAreaStart))
                     /\ processedLba' = ProcessedLba(encrypt, lba', bufferSectors)
                     /\ pc' = "update"
    /\ UNCHANGED <<cryptoInfo, disk, media, ioLog, perMille, numberSectors, bufferSectors, bytesToRead, sectorsInVolume>>
    /\ UNCHANGED orchVars

\* ---------------------------------------- update_blocks_in_volume_header

\* the range check of line 246
LbaOutOfRangeNoUpper(lbaArg, startSector, inVolume) == lbaArg < startSector

LbaOutOfRangeNoLower(lbaArg, startSector, inVolume) == lbaArg > UAdd(startSector, inVolume)

LbaOutOfRange(lbaArg, startSector, inVolume) ==
    (lbaArg < startSector) \/ (lbaArg > UAdd(startSector, inVolume))

\* lines 243-260; update_volume_header writes the CRYPTO_INFO to the media
UpdateBlocksInVolumeHeader ==
    /\ pc = "update"
    /\ LET startSector == ShiftRight(cryptoInfo.EncryptedAreaStart)
           inVolume == ShiftRight(cryptoInfo.VolumeSize)
       IN IF LbaOutOfRange(processedLba, startSector, inVolume)
             THEN /\ error' = "EFI_VOLUME_CORRUPTED"
                  /\ hist' = [hist EXCEPT !.updateCalls = @ + 1]
                  /\ UNCHANGED <<cryptoInfo, disk>>
             ELSE /\ cryptoInfo' = [cryptoInfo EXCEPT !.EncryptedAreaLength = ShiftLeft(USub(processedLba, startSector))]
                  /\ \E writeOk \in BOOLEAN :
                        /\ disk' = IF writeOk THEN cryptoInfo' ELSE disk
                        /\ error' = IF writeOk THEN "EFI_SUCCESS" ELSE "EFI_DEVICE_ERROR"
                        /\ hist' = [hist EXCEPT !.updateCalls = @ + 1, !.persistCalls = @ + 1, !.persistFailed = ~writeOk]
    /\ pc' = "conv_ret"
    /\ UNCHANGED <<media, ioLog, perMille>>
    /\ UNCHANGED convVars
    /\ UNCHANGED orchVars

\* ---------------------------------------------------------- specification

Next ==
    \/ Entry
    \/ PasswordRound
    \/ AfterPassword
    \/ ConfirmIntent
    \/ DriverActivation
    \/ GetCsChildQuery
    \/ GetCsChildScan
    \/ OpenBlockIoProtocols
    \/ ConvSetup
    \/ LoopExit
    \/ ReadBlocks
    \/ WriteBlocks
    \/ CheckForEsc
    \/ ConvExit
    \/ UpdateBlocksInVolumeHeader
    \/ SessionClose

Spec == Init /\ [][Next]_vars


\* update_blocks_in_volume_header on its own: any header of the model, any
\* processedLba around its range
LbaArgs == 0 .. (MaxSectors + 2 * CS_SERVICE_NUMBER_SECTORS)

InitHdr ==
    /\ pc = "update"
    /\ runs = 1
    /\ encrypt \in BOOLEAN
    /\ user_decision = "CS_UI_SERVICE_MENU"
    /\ status = "NONE"
    /\ error = "EFI_SUCCESS"
    /\ showWrongPwd = FALSE
    /\ \E g \in Geometries :
          /\ disk = Header(ShiftLeft(g[3]), ShiftLeft(g[2]), ShiftLeft(g[1]))
          /\ media = 0 .. ((IF g[2] <= g[1] THEN g[2] ELSE g[1]) - 1)
    /\ cryptoInfo = disk
    /\ OpenInfo = "NULL"
    /\ ChildHandle = "cs1"
    /\ parentOpen = TRUE
    /\ childOpen = TRUE
    /\ closes = [parent |-> 0, child |-> 0]
    /\ lba = 0
    /\ numberSectors = 0
    /\ bufferSectors = 0
    /\ bytesToRead = 0
    /\ sectorsInVolume = ShiftRight(disk.VolumeSize)
    /\ processedLba \in LbaArgs
    /\ ioLog = <<>>
    /\ perMille = <<>>
    /\ hist = [NoHist EXCEPT !.entryHdr = disk, !.steps = {"password", "confirm", "driver", "discover", "open", "convert"}, !.pwdAccepted = TRUE, !.confirmed = TRUE, !.parentOpened = TRUE, !.sessionOpened = TRUE, !.bufferAllocated = TRUE]
    /\ prev = NoPrev
    /\ hdr0 = disk
    /\ scan = NoScan

NextHdr == UpdateBlocksInVolumeHeader

SpecHdr == InitHdr /\ [][NextHdr]_vars

\* ------------------------------------------------------------- properties

\* the sectors one I/O call transfers
Sectors(e) == ShiftRight(e.bytes)

\* the size of the transfers of a log, in sectors
RECURSIVE WrittenSectors(_)
WrittenSectors(log) ==
    IF log = <<>> THEN 0
    ELSE (IF Head(log).op = "write" /\ Head(log).ok THEN Sectors(Head(log)) ELSE 0) + WrittenSectors(Tail(log))

\* every transfer of the run so far lies inside the volume
InVolumeRun == \A i \in 1..Len(ioLog) : ioLog[i].lba + Sectors(ioLog[i]) <= sectorsInVolume

\* no read, write or header write of the run has failed
IoOk == ~hist.ioFailed /\ ~hist.persistFailed

CeilDiv(a, b) == (a + b - 1) \div b

\* the persisted boundary at entry, and the volume size, in sectors
EntrySectors == ShiftRight(hist.entryHdr.EncryptedAreaLength)

TotalSectors == ShiftRight(hist.entryHdr.VolumeSize)

\* C1: if the header the volume starts with satisfies
\* 0 <= encrypted_area_length <= volume_size, then the persisted header
\* always does, and the in-memory header does immediately before
\* (pc = "update") and after (pc = "conv_ret") every call of
\* update_blocks_in_volume_header.
C1_LengthWithinVolume ==
    ValidHeader(hdr0) =>
        /\ ValidHeader(disk)
        /\ (pc \in {"update", "conv_ret"} => ValidHeader(cryptoInfo))

\* a cancelled run whose persistence call moved the boundary
C1_Witness ==
    /\ ValidHeader(hdr0)
    /\ pc = "conv_ret"
    /\ hist.cancelled
    /\ hist.persistCalls = 1
    /\ disk.EncryptedAreaLength # hist.entryHdr.EncryptedAreaLength

\* C2: when do_encrypt_decrypt_media returns after at least one chunk has
\* been written, the persisted encrypted_area_length is the conversion
\* boundary of the media: the sectors below it are encrypted, those from it
\* to the end of the volume are plaintext.  (Stated for runs that started
\* from a media that agreed with its header, whose transfers stayed inside
\* the volume and whose header write, if any, succeeded.)
C2_NoTornRegion ==
    (pc = "conv_ret" /\ hist.chunks >= 1 /\ hist.entryConsistent /\ InVolumeRun /\ ~hist.persistFailed) =>
        Consistent(disk, media)

\* C3: in every conversion attempt that got past the buffer allocation,
\* update_blocks_in_volume_header is invoked exactly once, after the last
\* block I/O, whether the loop ended by completion, cancellation or an I/O
\* error.  (Stated for runs that transferred at least one chunk inside the
\* volume, so that `error` was assigned.)
C3_PersistedExactlyOnce ==
    (pc = "conv_ret" /\ hist.bufferAllocated /\ Len(ioLog) > 0 /\ InVolumeRun) =>
        (hist.updateCalls = 1 /\ ~hist.ioAfterPersist)

\* C4: an Encrypt run from encrypted_sectors < total_sectors in which all
\* I/O succeeds and nobody cancels issues chunk k at
\* encrypted_sectors + 80 (k - 1) with min(80, sectors left) sectors, at
\* most ceil((total - encrypted) / 80) of them, and ends with
\* encrypted_area_length = total_sectors * sector size.
C4_EncryptSweep ==
    (encrypt /\ hist.bufferAllocated /\ EntrySectors < TotalSectors /\ IoOk /\ ~hist.cancelled) =>
        /\ hist.chunks <= CeilDiv(TotalSectors - EntrySectors, CS_SERVICE_NUMBER_SECTORS)
        /\ \A i \in 1..Len(ioLog) :
              LET k == (i + 1) \div 2
                  at == EntrySectors + CS_SERVICE_NUMBER_SECTORS * (k - 1)
                  rest == TotalSectors - at
              IN /\ ioLog[i].lba = at
                 /\ Sectors(ioLog[i]) = (IF rest < CS_SERVICE_NUMBER_SECTORS THEN rest ELSE CS_SERVICE_NUMBER_SECTORS)
        /\ (pc = "conv_ret" =>
              /\ hist.chunks = CeilDiv(TotalSectors - EntrySectors, CS_SERVICE_NUMBER_SECTORS)
              /\ (~hist.uninitRead => disk.EncryptedAreaLength = ShiftLeft(TotalSectors)))

\* C5: in both directions every chunk has min(80, sectors left) sectors, the
\* count of sectors left never wraps around, and no ReadBlocks or WriteBlocks
\* call reaches a sector at or beyond total_sectors.
C5_ChunkWithinRemaining ==
    /\ numberSectors <= sectorsInVolume
    /\ \A i \in 1..Len(ioLog) :
          /\ Sectors(ioLog[i]) = (IF ioLog[i].left < CS_SERVICE_NUMBER_SECTORS THEN ioLog[i].left ELSE CS_SERVICE_NUMBER_SECTORS)
          /\ ioLog[i].lba + Sectors(ioLog[i]) <= sectorsInVolume

\* C6: a run cancelled after k >= 1 chunks, all I/O succeeding, has done no
\* I/O beyond those chunks, returns success with decision Reboot, and has
\* persisted the start value plus (Encrypt) or minus (Decrypt) the sectors
\* of the k chunks.
C6_CancelPersistsBoundary ==
    (pc = "done" /\ hist.cancelled /\ hist.chunks >= 1 /\ IoOk) =>
        /\ Len(ioLog) = 2 * hist.chunks
        /\ status = "EFI_SUCCESS"
        /\ user_decision = "CS_UI_REBOOT"
        /\ disk.EncryptedAreaLength =
              (IF encrypt
                  THEN hist.entryHdr.EncryptedAreaLength + ShiftLeft(WrittenSectors(ioLog))
                  ELSE hist.entryHdr.EncryptedAreaLength - ShiftLeft(WrittenSectors(ioLog)))

\* C7: a run that resumes, in the same direction, a run that was cancelled
\* with all its I/O succeeding starts at the persisted boundary, transfers
\* only sectors that are still to be converted (Encrypt: from the boundary
\* to the end of the volume; Decrypt: below the boundary) and, with all I/O
\* succeeding and no cancellation, ends with encrypted_area_length =
\* volume size (Encrypt) or 0 (Decrypt).
C7_ResumeCompletesRemainder ==
    (prev.ran /\ prev.cancelled /\ prev.ioOk /\ prev.success /\ prev.encrypt = encrypt /\ hist.bufferAllocated /\ IoOk) =>
        /\ Len(ioLog) > 0 =>
              (IF encrypt THEN ioLog[1].lba = EntrySectors ELSE ioLog[1].lba + Sectors(ioLog[1]) = EntrySectors)
        /\ \A i \in 1..Len(ioLog) :
              IF encrypt
                 THEN EntrySectors <= ioLog[i].lba /\ ioLog[i].lba + Sectors(ioLog[i]) <= TotalSectors
                 ELSE ioLog[i].lba + Sectors(ioLog[i]) <= EntrySectors
        /\ (pc = "conv_ret" /\ ~hist.cancelled /\ ~hist.uninitRead) =>
              disk.EncryptedAreaLength = (IF encrypt THEN ShiftLeft(TotalSectors) ELSE 0)

\* the current run is a Decrypt run that swept to its end, after an Encrypt
\* run that swept to its end, all I/O of both succeeding
RoundTripDone ==
    /\ pc = "done"
    /\ prev.ran /\ prev.encrypt /\ prev.completed /\ prev.ioOk
    /\ ~encrypt /\ hist.loopDone /\ IoOk

\* C8 (as the claim states it): Encrypt to completion, then Decrypt to
\* completion, leaves encrypted_area_length at the value it had before the
\* Encrypt run.  (Stated for the first two runs, the Encrypt run having
\* transferred at least one chunk and both having returned success.)
C8_RoundTripRestores ==
    (RoundTripDone /\ runs = 2 /\ prev.converted /\ prev.success /\ status = "EFI_SUCCESS") =>
        disk.EncryptedAreaLength = hdr0.EncryptedAreaLength

\* C8 (amended): Encrypt to completion, then Decrypt to completion, leaves
\* encrypted_area_length at 0, whatever it was before the Encrypt run.
C8_RoundTripEndsDecrypted ==
    RoundTripDone => disk.EncryptedAreaLength = 0

\* a round trip that started from a partly encrypted volume, with chunks
\* transferred in both runs
C8_Witness ==
    /\ RoundTripDone
    /\ runs = 2
    /\ hdr0.EncryptedAreaLength > 0
    /\ prev.converted
    /\ hist.chunks > 1

\* C9: update_blocks_in_volume_header, given a processedLba below
\* start_sector or above start_sector + volume_sectors, returns
\* EFI_VOLUME_CORRUPTED, leaves the header in memory and on the media as it
\* was, and does not call update_volume_header.
C9_OutOfRangeRejected ==
    [][(/\ pc = "update"
        /\ \/ processedLba < ShiftRight(cryptoInfo.EncryptedAreaStart)
           \/ processedLba > ShiftRight(cryptoInfo.EncryptedAreaStart) + ShiftRight(cryptoInfo.VolumeSize))
       => (/\ error' = "EFI_VOLUME_CORRUPTED"
           /\ cryptoInfo' = cryptoInfo
           /\ disk' = disk
           /\ hist'.persistCalls = hist.persistCalls)]_vars

\* the function has returned from a call with processedLba below the start
\* sector
C9_Witness ==
    /\ pc = "conv_ret"
    /\ hist.updateCalls = 1
    /\ processedLba < ShiftRight(cryptoInfo.EncryptedAreaStart)
    /\ error = "EFI_VOLUME_CORRUPTED"

\* C10 (as the claim states it): after the escape key at the password
\* prompt encrypt_decrypt_media returns success with decision
\* CS_UI_ESC_PRESSED.
C10_EscYieldsEscPressed ==
    (pc = "done" /\ hist.esc) => (user_decision = "CS_UI_ESC_PRESSED" /\ status = "EFI_SUCCESS")

\* C10 (amended): after the escape key at the password prompt
\* encrypt_decrypt_media returns success with the decision back at
\* CS_UI_SERVICE_MENU.
C10_EscYieldsServiceMenu ==
    (pc = "done" /\ hist.esc) => (user_decision = "CS_UI_SERVICE_MENU" /\ status = "EFI_SUCCESS")

\* encrypt_decrypt_media has returned after an escape key at the prompt
C10_Witness ==
    /\ pc = "done"
    /\ hist.esc
    /\ hist.returned

\* C11: when encrypt_decrypt_media has returned, the decision is
\* CS_UI_REBOOT exactly if both block I/O interfaces were opened: it is
\* CS_UI_REBOOT after every outcome of the conversion (completion,
\* cancellation, I/O error, EFI_VOLUME_CORRUPTED, EFI_OUT_OF_RESOURCES) and
\* something else on every return before the session was opened.
C11_RebootIffSessionOpened ==
    pc = "done" => ((user_decision = "CS_UI_REBOOT") <=> hist.sessionOpened)

\* encrypt_decrypt_media has returned from a session whose conversion ended
\* with an error
C11_Witness ==
    /\ pc = "done"
    /\ hist.sessionOpened
    /\ EFI_ERROR(status)
    /\ user_decision = "CS_UI_REBOOT"

\* the positions inside do_encrypt_decrypt_media, and just after it
ConversionPcs == {"convert", "loop", "write", "poll", "exit", "update", "conv_ret"}

\* C12: encrypt_decrypt_media closes what it opened.  The conversion runs
\* only with both interfaces open and before any close.  At the return,
\* every interface that was opened has had exactly one close issued for it
\* (so one that is still open is one whose close failed) and no other has;
\* when only the parent was opened, the open error is returned and no
\* conversion has run; after a session the status returned is the one the
\* conversion left, whatever the two closes returned.
C12_SessionClosed ==
    /\ pc \in ConversionPcs =>
          (hist.sessionOpened /\ parentOpen /\ childOpen /\ closes = [parent |-> 0, child |-> 0])
    /\ pc = "done" =>
          /\ closes.parent = (IF hist.parentOpened THEN 1 ELSE 0)
          /\ closes.child = (IF hist.sessionOpened THEN 1 ELSE 0)
          /\ (~hist.parentOpened => ~parentOpen)
          /\ (~hist.sessionOpened => (~childOpen /\ ioLog = <<>> /\ ~hist.bufferAllocated /\ hist.updateCalls = 0))
          /\ ((hist.parentOpened /\ ~hist.sessionOpened) => EFI_ERROR(status))
          /\ (hist.sessionOpened => status = error)

\* a session after which the close of the parent failed, the close of the
\* child did not, and the error of the conversion was returned
C12_Witness ==
    /\ pc = "done"
    /\ hist.sessionOpened
    /\ parentOpen
    /\ ~childOpen
    /\ closes = [parent |-> 1, child |-> 1]
    /\ status = "EFI_OUT_OF_RESOURCES"

\* the entries of a list that are opened BY_CHILD_CONTROLLER and pass the
\* probe
Matching(info) ==
    {i \in 1..Len(info) : info[i].Attributes = "BY_CHILD_CONTROLLER" /\ is_cs_child_device(info[i].ControllerHandle)}

\* C13: get_cs_child returns the first entry of the list, in its order,
\* that is opened BY_CHILD_CONTROLLER and passes is_cs_child_device, and has
\* probed no entry after it; when no entry is both (even if entries opened
\* BY_CHILD_CONTROLLER exist) it returns EFI_NO_MEDIA and a null child
\* handle, which ends encrypt_decrypt_media; either way the list has been
\* freed.
C13_FirstMatchingChild ==
    scan.done =>
        /\ OpenInfo = "NULL"
        /\ IF Matching(scan.info) = {}
              THEN /\ ChildHandle = "NULL"
                   /\ error = "EFI_NO_MEDIA"
                   /\ pc = "done"
                   /\ status = "EFI_NO_MEDIA"
              ELSE LET first == CHOOSE i \in Matching(scan.info) : \A j \in Matching(scan.info) : i <= j
                   IN /\ ChildHandle = scan.info[first].ControllerHandle
                      /\ error = "EFI_SUCCESS"
                      /\ pc = "open"
                      /\ \A i \in scan.probed : i <= first

\* get_cs_child has returned the first of two entries that both qualify
C13_Witness ==
    /\ scan.done
    /\ Len(scan.info) = 2
    /\ Matching(scan.info) = {1, 2}
    /\ scan.info[1].ControllerHandle # scan.info[2].ControllerHandle
    /\ ChildHandle = scan.info[1].ControllerHandle
    /\ scan.probed = {1}

\* C14: the block I/O calls of a run alternate: a ReadBlocks on the source
\* (the child for Encrypt, the parent for Decrypt), then a WriteBlocks on
\* the destination (the parent for Encrypt, the child for Decrypt) with the
\* LBA and the byte count of that read.  A call that failed is the last
\* call of the run: no write follows a failed read, no chunk follows a
\* failed read or write.
C14_ReadThenWrite ==
    \A i \in 1..Len(ioLog) :
        /\ IF i % 2 = 1
              THEN /\ ioLog[i].op = "read"
                   /\ ioLog[i].dev = (IF encrypt THEN "child" ELSE "parent")
              ELSE /\ ioLog[i].op = "write"
                   /\ ioLog[i].dev = (IF encrypt THEN "parent" ELSE "child")
                   /\ ioLog[i].lba = ioLog[i - 1].lba
                   /\ ioLog[i].bytes = ioLog[i - 1].bytes
                   /\ ioLog[i - 1].ok
        /\ (~ioLog[i].ok => i = Len(ioLog))

\* a run that has returned after the read of its second chunk failed
C14_Witness ==
    /\ pc = "done"
    /\ Len(ioLog) = 3
    /\ ioLog[2].ok
    /\ ~ioLog[3].ok
    /\ ioLog[3].lba # ioLog[1].lba

\* the sectors the successful writes of a log cover
RECURSIVE Covered(_)
Covered(log) ==
    IF log = <<>> THEN {}
    ELSE (IF Head(log).op = "write" /\ Head(log).ok THEN Chunk(Head(log).lba, Sectors(Head(log))) ELSE {}) \cup Covered(Tail(log))

\* C15: a Decrypt run from encrypted_sectors >= 1 (below 80, a multiple of
\* 80 or not) in which all I/O succeeds and nobody cancels works downwards
\* from the boundary: chunk k covers the min(80, what is left) sectors just
\* below chunk k - 1, starting at its lowest sector, never below sector 0;
\* when the sweep is over every sector of [0, encrypted_sectors) has been
\* transferred exactly once and the persisted length is 0.
C15_DecryptSweep ==
    (~encrypt /\ hist.bufferAllocated /\ EntrySectors >= 1 /\ IoOk /\ ~hist.cancelled) =>
        /\ \A i \in 1..Len(ioLog) :
              LET k == (i + 1) \div 2
                  top == EntrySectors - CS_SERVICE_NUMBER_SECTORS * (k - 1)
                  n == IF top < CS_SERVICE_NUMBER_SECTORS THEN top ELSE CS_SERVICE_NUMBER_SECTORS
              IN /\ top > 0
                 /\ Sectors(ioLog[i]) = n
                 /\ ioLog[i].lba = top - n
                 /\ ioLog[i].lba >= 0
        /\ (pc = "conv_ret" =>
              /\ hist.loopDone
              /\ Covered(ioLog) = 0 .. (EntrySectors - 1)
              /\ WrittenSectors(ioLog) = EntrySectors
              /\ hist.persistCalls = 1
              /\ disk.EncryptedAreaLength = 0
              /\ error = "EFI_SUCCESS")

\* a completed Decrypt sweep of more than one chunk whose length is no
\* multiple of the buffer
C15_Witness ==
    /\ pc = "conv_ret"
    /\ ~encrypt /\ hist.loopDone /\ IoOk
    /\ EntrySectors > CS_SERVICE_NUMBER_SECTORS
    /\ EntrySectors % CS_SERVICE_NUMBER_SECTORS # 0
    /\ hist.chunks > 1
    /\ disk.EncryptedAreaLength = 0

\* C16: when do_encrypt_decrypt_media fails before its loop, it returns
\* EFI_VOLUME_CORRUPTED if encrypted_sectors > total_sectors and
\* EFI_OUT_OF_RESOURCES if the buffer could not be allocated;
\* encrypt_decrypt_media returns that error; no ReadBlocks or WriteBlocks
\* was issued, the header in memory and the persisted header are as they
\* were at entry, and neither update_blocks_in_volume_header nor
\* update_volume_header was called.
C16_SetupFailureTouchesNothing ==
    (pc \in {"conv_ret", "done"} /\ hist.sessionOpened /\ ~hist.bufferAllocated) =>
        /\ error = (IF EntrySectors > TotalSectors THEN "EFI_VOLUME_CORRUPTED" ELSE "EFI_OUT_OF_RESOURCES")
        /\ (pc = "done" => status = error)
        /\ ioLog = <<>>
        /\ cryptoInfo = hist.entryHdr
        /\ disk = hist.entryHdr
        /\ hist.updateCalls = 0
        /\ hist.persistCalls = 0

\* encrypt_decrypt_media has returned from a session on a volume whose
\* header claims more encrypted sectors than the volume has
C16_Witness ==
    /\ pc = "done"
    /\ hist.sessionOpened
    /\ EntrySectors > TotalSectors
    /\ status = "EFI_VOLUME_CORRUPTED"
    /\ ioLog = <<>>

\* the steps of encrypt_decrypt_media in the order of its code
StepOrder == <<"password", "confirm", "driver", "discover", "open", "convert">>

\* a step has been attempted only if the one before it has
OrderedSteps(S) == \A i \in 2..Len(StepOrder) : StepOrder[i] \in S => StepOrder[i - 1] \in S

\* C17: encrypt_decrypt_media attempts its steps in order, and the driver
\* activation, the discovery, the session open and every block I/O come
\* only after decrypt_volume_header succeeded and the user confirmed.  The
\* prompt is repeated exactly when decrypt_volume_header answered
\* EFI_ACCESS_DENIED.  The escape key ends the run with success and nothing
\* beyond the prompt attempted; any other failure of the password check
\* ends it with that error; a declined confirmation ends it with success,
\* nothing beyond the confirmation attempted and the decision still
\* CS_UI_SERVICE_MENU; a failed driver activation ends it with its error
\* and nothing beyond the activation attempted.
C17_GatedOrchestration ==
    /\ [](/\ OrderedSteps(hist.steps)
          /\ (hist.confirmed => hist.pwdAccepted)
          /\ ("driver" \in hist.steps => (hist.pwdAccepted /\ hist.confirmed))
          /\ (pc \in ({"driver", "discover", "scan", "open"} \cup ConversionPcs) => (hist.pwdAccepted /\ hist.confirmed))
          /\ (scan.done => "discover" \in hist.steps)
          /\ (hist.parentOpened => "open" \in hist.steps)
          /\ (ioLog # <<>> => "convert" \in hist.steps)
          /\ (pc = "done" =>
                /\ (hist.esc => (hist.steps = {"password"} /\ status = "EFI_SUCCESS"))
                /\ ((~hist.pwdAccepted /\ ~hist.esc) => (hist.steps \subseteq {"password"} /\ EFI_ERROR(status)))
                /\ ((hist.pwdAccepted /\ ~hist.confirmed) =>
                      (hist.steps = {"password", "confirm"} /\ status = "EFI_SUCCESS" /\ user_decision = "CS_UI_SERVICE_MENU"))
                /\ (hist.steps = {"password", "confirm", "driver"} => EFI_ERROR(status))))
    /\ [][/\ (pc = "pwd" => ((pc' = "pwd") <=> (error' = "EFI_ACCESS_DENIED")))
          /\ ((pc = "driver" /\ EFI_ERROR(error')) => (pc' = "done" /\ status' = error' /\ hist'.steps = hist.steps \cup {"driver"}))
          /\ ((pc = "driver" /\ ~EFI_ERROR(error')) => pc' = "discover")]_vars

\* encrypt_decrypt_media has returned because the user, whose password was
\* accepted, declined the confirmation
C17_Witness ==
    /\ pc = "done"
    /\ hist.pwdAccepted
    /\ ~hist.confirmed
    /\ hist.steps = {"password", "confirm"}
    /\ user_decision = "CS_UI_SERVICE_MENU"

\* the sectors of the volume that are in their final form once the first i
\* chunks of the run have been read and written: the encrypted ones for
\* Encrypt, the plaintext ones for Decrypt
ProcessedAfter(i) ==
    IF encrypt
       THEN EntrySectors + WrittenSectors(SubSeq(ioLog, 1, 2 * i))
       ELSE (TotalSectors - EntrySectors) + WrittenSectors(SubSeq(ioLog, 1, 2 * i))

\* C18: the value passed to dump_per_cent after chunk i lies in 0..1000 and
\* is floor(1000 * processed / total_sectors), processed being the sectors
\* whose chunk has been read and written, not the chunk that comes next.
\* (For Decrypt the value may also be rounded from the other side, as
\* 1000 - floor(1000 * unprocessed / total_sectors).)
C18_ProgressIsProcessed ==
    \A i \in 1..Len(perMille) :
        /\ perMille[i] \in 0..1000
        /\ \/ perMille[i] = (1000 * ProcessedAfter(i)) \div TotalSectors
           \/ /\ ~encrypt
              /\ perMille[i] = 1000 - ((1000 * (TotalSectors - ProcessedAfter(i))) \div TotalSectors)

\* the run found nothing to convert: the volume is already fully encrypted
\* (Encrypt) or holds no encrypted sector (Decrypt)
NothingToConvert == IF encrypt THEN EntrySectors = TotalSectors ELSE EntrySectors = 0

\* C19: when there is nothing to convert and the buffer was allocated,
\* do_encrypt_decrypt_media issues no block I/O, calls the persistence step
\* and returns what that step returned, and leaves encrypted_area_length,
\* in memory and on the media, as it was at entry.
C19_NothingToConvert ==
    (pc = "conv_ret" /\ hist.bufferAllocated /\ NothingToConvert) =>
        /\ ioLog = <<>>
        /\ hist.updateCalls = 1
        /\ hist.persistCalls = 1
        /\ error = (IF hist.persistFailed THEN "EFI_DEVICE_ERROR" ELSE "EFI_SUCCESS")
        /\ cryptoInfo.EncryptedAreaLength = hist.entryHdr.EncryptedAreaLength
        /\ disk.EncryptedAreaLength = hist.entryHdr.EncryptedAreaLength

====
